---- MODULE Spec2Model ----
(***************************************************************************)
(* rust-unicorn: the Joplin AppImage installer (src/src/main.rs).          *)
(*                                                                         *)
(* One run of main is a straight line: parse the command line, create the  *)
(* install directory, GET the latest release, pick the first asset whose   *)
(* name ends with ".AppImage", then either the already-installed branch    *)
(* (chmod, symlink, return) or the download (GET, File::create, chunk      *)
(* loop, chmod, symlink).  The state is the filesystem, the requests sent  *)
(* and the position main has reached.                                      *)
(*                                                                         *)
(* Names are sequences of characters, so that ends_with is computed.       *)
(* Modes are the st_mode integers of the unix target.  Every entry is      *)
(* owned by the invoking user, who is not root, and an install directory   *)
(* that exists is writable; the failures that depend on what lies outside  *)
(* the model (HOME, the network, the parents of the install directory) are *)
(* inputs of the actions.                                                  *)
(***************************************************************************)
EXTENDS Integers, Sequences, TLC

VARIABLES
    args,            \* env::args(), program name first; read by the parsing loop only
    home,            \* what env::var("HOME") gave: "unread", "set" or "unset"
    install_dir,     \* main's locals of the same names
    create_symlink,
    force_update,
    quiet,
    latest,          \* the release the API serves as "latest"
    asset,           \* the asset main selected, NoAsset before
    fs,              \* the filesystem: existing directory -> (name -> entry)
    fs0,             \* fs as it was when the current run started
    gets,            \* the URLs this run has sent a GET to, in order
    recv,            \* the chunks the asset response has yielded so far
    downloaded,      \* main's byte counter
    out,             \* the lines printed to stdout, as tags
    pc,              \* where main is
    stage,           \* where the run ended ("none" while it runs)
    exit,            \* "none" while running, then "ok" (status 0) or "err"
    run,             \* number of the current run
    prev             \* stage at which the previous run ended

vars == <<args, home, install_dir, create_symlink, force_update, quiet, latest,
          asset, fs, fs0, gets, recv, downloaded, out, pc, stage, exit, run, prev>>

---------------------------------------------------------------------------
(* Bounds of the model.                                                    *)
MaxArgs == 2       \* arguments after the program name
MaxChunks == 2     \* chunks an asset response yields
MaxRuns == 2       \* consecutive runs of the program

---------------------------------------------------------------------------
(* Strings of the program.                                                 *)
Prog == "rust-unicorn"
DefaultDir == "$HOME/./Documents/repository/rust-unicorn"
OptDir == "/opt/app"
Tokens == {"--install-dir", "-d", "--no-symlink", "--force", "-f",
           "--quiet", "-q", "--help", "-h", OptDir}
Dirs == Tokens \cup {DefaultDir}

ApiUrl == <<"https://api.github.com/repos/laurent22/joplin/releases/latest">>

AppImageSuffix == <<".", "A", "p", "p", "I", "m", "a", "g", "e">>
Joplin == <<"j", "o", "p", "l", "i", "n">>
App1 == <<"J", "1">> \o AppImageSuffix
App2 == <<"J", "2">> \o AppImageSuffix
Old == <<"J", "0">> \o AppImageSuffix
Deb == <<"J", ".", "d", "e", "b">>
Lower == <<"J", ".", "a", "p", "p", "i", "m", "a", "g", "e">>
Zsync == <<"J">> \o AppImageSuffix \o <<".", "z">>

Asset(n) == [name |-> n, browser_download_url |-> <<"u", "/">> \o n]
NoAsset == [name |-> <<>>, browser_download_url |-> <<>>]
Release(t, ns) == [tag_name |-> t, assets |-> [k \in 1..Len(ns) |-> Asset(ns[k])]]
Releases == {Release("v0", <<>>),
             Release("v1", <<Deb, Zsync, Lower>>),
             Release("v2", <<Zsync, App1, Deb, App2>>)}

---------------------------------------------------------------------------
(* Mode bits.                                                              *)
S_IFREG == 32768     \* 0o100000
S_IFDIR == 16384     \* 0o040000
ExecBits == 493      \* 0o755
CreateMode == 438    \* 0o666, the mode File::create asks for
PermMask == 4096     \* chmod keeps mode % 0o10000
OwnerWrite == 128    \* 0o200
Umasks == {18, 63}   \* 0o022, 0o077

RECURSIVE BitOr(_, _)
BitOr(a, b) ==
    IF a = 0 THEN b
    ELSE IF b = 0 THEN a
    ELSE (IF a % 2 = 1 \/ b % 2 = 1 THEN 1 ELSE 0) + 2 * BitOr(a \div 2, b \div 2)

RECURSIVE BitAnd(_, _)
BitAnd(a, b) ==
    IF a = 0 \/ b = 0 THEN 0
    ELSE (IF a % 2 = 1 /\ b % 2 = 1 THEN 1 ELSE 0) + 2 * BitAnd(a \div 2, b \div 2)

---------------------------------------------------------------------------
(* The filesystem: a function from the directories that exist to their     *)
(* entries, each a function from the names present to what is there: a     *)
(* regular file (perm, data) or a symlink (target: a bare filename,        *)
(* resolved in the same directory).                                        *)
NoEntry == [kind |-> "none", perm |-> 0, data |-> <<>>, target |-> <<>>]
FileEntry(p, d) == [kind |-> "file", perm |-> p, data |-> d, target |-> <<>>]
SymlinkEntry(t) == [kind |-> "symlink", perm |-> 511, data |-> <<>>, target |-> t]
EmptyEnts == [n \in {} |-> NoEntry]

Ent(ents, n) == IF n \in DOMAIN ents THEN ents[n] ELSE NoEntry
Put(ents, n, e) == [m \in DOMAIN ents \cup {n} |-> IF m = n THEN e ELSE ents[m]]
Del(ents, n) == [m \in DOMAIN ents \ {n} |-> ents[m]]
Ents(f, d) == IF d \in DOMAIN f THEN f[d] ELSE EmptyEnts
Failed(ents) == [ok |-> FALSE, ents |-> ents]
Done(ents) == [ok |-> TRUE, ents |-> ents]

\* The name a path resolves to when symlinks are followed, <<>> when the chain loops.
RECURSIVE Follow(_, _, _)
Follow(ents, n, seen) ==
    IF n \in seen THEN <<>>
    ELSE IF Ent(ents, n).kind = "symlink"
    THEN Follow(ents, Ent(ents, n).target, seen \cup {n})
    ELSE n

\* Path::exists: stat, which follows symlinks; a dangling symlink does not exist.
exists(ents, n) ==
    LET t == Follow(ents, n, {}) IN t # <<>> /\ Ent(ents, t).kind # "none"

\* fs::metadata(path)?.permissions().mode(): the st_mode of what the path resolves to.
metadata_mode(ents, n) ==
    LET e == Ent(ents, Follow(ents, n, {})) IN
    (IF e.kind = "dir" THEN S_IFDIR ELSE S_IFREG) + e.perm

\* fs::set_permissions: chmod of what the path resolves to.
set_permissions(ents, n, mode) ==
    LET t == Follow(ents, n, {}) IN
    Put(ents, t, [Ent(ents, t) EXCEPT !.perm = mode % PermMask])

\* set_mode as a plain chmod 755 would be: the previous bits are dropped.
set_mode_replace(mode) == ExecBits

\* perms.set_mode(perms.mode() | 0o755)
set_mode(mode) == BitOr(mode, ExecBits)

\* metadata, set_mode, set_permissions, as both branches of main do.
make_executable(ents, n) == set_permissions(ents, n, set_mode(metadata_mode(ents, n)))

\* File_create as an open without O_TRUNC would be.
File_create_no_truncate(ents, n, umask) ==
    LET t == Follow(ents, n, {}) IN
    IF t = <<>> THEN Failed(ents)
    ELSE IF Ent(ents, t).kind = "dir" THEN Failed(ents)
    ELSE IF Ent(ents, t).kind = "file" THEN
        IF BitAnd(Ent(ents, t).perm, OwnerWrite) = 0 THEN Failed(ents)
        ELSE Done(ents)
    ELSE Done(Put(ents, t, FileEntry(CreateMode - BitAnd(CreateMode, umask), <<>>)))

\* File::create: open for writing, create if absent (mode 0o666 less the umask),
\* truncate; refused on a file the owner may not write.
File_create(ents, n, umask) ==
    LET t == Follow(ents, n, {}) IN
    IF t = <<>> THEN Failed(ents)
    ELSE IF Ent(ents, t).kind = "dir" THEN Failed(ents)
    ELSE IF Ent(ents, t).kind = "file" THEN
        IF BitAnd(Ent(ents, t).perm, OwnerWrite) = 0 THEN Failed(ents)
        ELSE Done(Put(ents, t, [Ent(ents, t) EXCEPT !.data = <<>>]))
    ELSE Done(Put(ents, t, FileEntry(CreateMode - BitAnd(CreateMode, umask), <<>>)))

\* write_all as a write that reopens the file for each chunk would be.
write_all_overwrite(ents, n, chunk) ==
    LET t == Follow(ents, n, {}) IN
    Put(ents, t, [Ent(ents, t) EXCEPT !.data = chunk])

\* file.write_all(&chunk): the handle appends at its position, the end.
write_all(ents, n, chunk) ==
    LET t == Follow(ents, n, {}) IN
    Put(ents, t, [Ent(ents, t) EXCEPT !.data = @ \o chunk])

\* fs::remove_file: unlink of the entry itself.
remove_file(ents, n) ==
    IF Ent(ents, n).kind \in {"none", "dir"} THEN Failed(ents)
    ELSE Done(Del(ents, n))

\* std::os::unix::fs::symlink(target, path): fails when any entry is at path.
symlink(ents, target, n) ==
    IF Ent(ents, n).kind # "none" THEN Failed(ents)
    ELSE Done(Put(ents, n, SymlinkEntry(target)))

create_joplin_symlink(ents, app_image_name) ==
    LET removed == IF exists(ents, Joplin) THEN remove_file(ents, Joplin)
                   ELSE Done(ents)
    IN  IF ~removed.ok THEN removed
        ELSE symlink(removed.ents, app_image_name, Joplin)

\* maybe_symlink with the create_symlink test left out.
maybe_symlink_always(enabled, ents, app_image_name) ==
    create_joplin_symlink(ents, app_image_name)

\* if create_symlink { create_joplin_symlink(..)?; }
maybe_symlink(enabled, ents, app_image_name) ==
    IF enabled THEN create_joplin_symlink(ents, app_image_name)
    ELSE Done(ents)

---------------------------------------------------------------------------
(* Release resolution.                                                     *)
\* ends_with as name.contains(suffix) would be.
ends_with_contains(s, suffix) ==
    \E k \in 1..Len(s) :
        /\ k + Len(suffix) - 1 <= Len(s)
        /\ SubSeq(s, k, k + Len(suffix) - 1) = suffix

ends_with(s, suffix) ==
    /\ Len(s) >= Len(suffix)
    /\ SubSeq(s, Len(s) - Len(suffix) + 1, Len(s)) = suffix

\* .into_iter().find(|a| a.name.ends_with(".AppImage")): the first match, NoAsset if none.
RECURSIVE find_asset(_, _)
find_asset(assets, k) ==
    IF k > Len(assets) THEN NoAsset
    ELSE IF ends_with(assets[k].name, AppImageSuffix) THEN assets[k]
    ELSE find_asset(assets, k + 1)

---------------------------------------------------------------------------
(* Argument parsing: the for loop over 1..args.len().  a[i + 1] is the     *)
(* code's args[i]; the loop never skips an index.                          *)
DefaultCfg == [install_dir |-> DefaultDir, create_symlink |-> TRUE,
               force_update |-> FALSE, quiet |-> FALSE, help |-> FALSE]

\* ParseLoop as a parser that steps over the value of -d would be.
RECURSIVE ParseLoop_skip_value(_, _, _)
ParseLoop_skip_value(a, i, c) ==
    IF i >= Len(a) THEN c
    ELSE LET tok == a[i + 1] IN
        IF tok \in {"--install-dir", "-d"} /\ i + 1 < Len(a)
        THEN ParseLoop_skip_value(a, i + 2, [c EXCEPT !.install_dir = a[i + 2]])
        ELSE IF tok = "--no-symlink"
        THEN ParseLoop_skip_value(a, i + 1, [c EXCEPT !.create_symlink = FALSE])
        ELSE IF tok \in {"--force", "-f"}
        THEN ParseLoop_skip_value(a, i + 1, [c EXCEPT !.force_update = TRUE])
        ELSE IF tok \in {"--quiet", "-q"}
        THEN ParseLoop_skip_value(a, i + 1, [c EXCEPT !.quiet = TRUE])
        ELSE IF tok \in {"--help", "-h"}
        THEN [c EXCEPT !.help = TRUE]
        ELSE ParseLoop_skip_value(a, i + 1, c)

RECURSIVE ParseLoop(_, _, _)
ParseLoop(a, i, c) ==
    IF i >= Len(a) THEN c
    ELSE LET tok == a[i + 1] IN
        IF tok \in {"--install-dir", "-d"} /\ i + 1 < Len(a)
        THEN ParseLoop(a, i + 1, [c EXCEPT !.install_dir = a[i + 2]])
        ELSE IF tok = "--no-symlink"
        THEN ParseLoop(a, i + 1, [c EXCEPT !.create_symlink = FALSE])
        ELSE IF tok \in {"--force", "-f"}
        THEN ParseLoop(a, i + 1, [c EXCEPT !.force_update = TRUE])
        ELSE IF tok \in {"--quiet", "-q"}
        THEN ParseLoop(a, i + 1, [c EXCEPT !.quiet = TRUE])
        ELSE IF tok \in {"--help", "-h"}
        THEN [c EXCEPT !.help = TRUE]
        ELSE ParseLoop(a, i + 1, c)

\* println! unless quiet
Say(o, q, line) == IF q THEN o ELSE Append(o, line)

\* install_dir.exists() and install_path.exists()
dir_exists(f, d) == d \in DOMAIN f
path_exists(f, d, n) == d \in DOMAIN f /\ exists(f[d], n)

\* fs::create_dir_all
create_dir_all(f, d) == [e \in DOMAIN f \cup {d} |-> IF e = d THEN EmptyEnts ELSE f[e]]

\* The k-th chunk of an asset response: k bytes of value k.
ChunkAt(k) == [j \in 1..k |-> k]

---------------------------------------------------------------------------
(* Initial states: a command line, the release the API serves, and the     *)
(* default install directory absent or as earlier runs and the user's own  *)
(* deletions can have left it (an asset file with or without write         *)
(* permission; joplin absent, a regular file, or a symlink to this or an   *)
(* older asset that is there or gone).  A directory named with -d starts   *)
(* absent, and the default directory is populated only under a command     *)
(* line that names no other.                                               *)
ArgLists == UNION {[1..n -> Tokens] : n \in 0..MaxArgs}

InitApp1 == {NoEntry, FileEntry(436, <<9, 9, 9, 9>>), FileEntry(292, <<9>>)}
InitJoplin == {[j |-> NoEntry, o |-> NoEntry],
               [j |-> FileEntry(420, <<9>>), o |-> NoEntry],
               [j |-> SymlinkEntry(App1), o |-> NoEntry],
               [j |-> SymlinkEntry(Old), o |-> FileEntry(493, <<9>>)],
               [j |-> SymlinkEntry(Old), o |-> NoEntry]}
Populate(a, j, o) ==
    LET e == (App1 :> a) @@ (Joplin :> j) @@ (Old :> o) IN
    [n \in {m \in DOMAIN e : e[m].kind # "none"} |-> e[n]]
InitFs == {[d \in {} |-> EmptyEnts]} \cup
          {[d \in {DefaultDir} |-> Populate(a, jo.j, jo.o)] :
              a \in InitApp1, jo \in InitJoplin}
NamesNoDir(a) == \A k \in 1..Len(a) : a[k] \notin {"--install-dir", "-d"}

Init ==
    /\ args \in {<<Prog>> \o l : l \in ArgLists}
    /\ home = "unread"
    /\ install_dir = ""
    /\ create_symlink = TRUE
    /\ force_update = FALSE
    /\ quiet = FALSE
    /\ latest \in Releases
    /\ asset = NoAsset
    /\ fs \in InitFs
    /\ DefaultDir \in DOMAIN fs => NamesNoDir(args)
    /\ fs0 = fs
    /\ gets = <<>>
    /\ recv = <<>>
    /\ downloaded = 0
    /\ out = <<>>
    /\ pc = "start"
    /\ stage = "none"
    /\ exit = "none"
    /\ run = 1
    /\ prev = "none"

---------------------------------------------------------------------------
(* main, step by step.                                                     *)

\* Lines 29-57: HOME, the defaults, the parsing loop.  args is not read
\* again once the loop has run to its end.
ParseArgs ==
    /\ pc = "start"
    /\ \E h \in {"set", "unset"} :
        /\ home' = h
        /\ IF h = "unset"
           THEN /\ pc' = "done" /\ stage' = "home" /\ exit' = "err"
                /\ UNCHANGED <<args, install_dir, create_symlink, force_update, quiet, out>>
           ELSE LET c == ParseLoop(args, 1, DefaultCfg) IN
                IF c.help
                THEN /\ out' = Append(out, "help")
                     /\ pc' = "done" /\ stage' = "help" /\ exit' = "ok"
                     /\ UNCHANGED <<args, install_dir, create_symlink, force_update, quiet>>
                ELSE /\ install_dir' = c.install_dir
                     /\ create_symlink' = c.create_symlink
                     /\ force_update' = c.force_update
                     /\ quiet' = c.quiet
                     /\ args' = <<>>
                     /\ pc' = "prepare_dir"
                     /\ UNCHANGED <<out, stage, exit>>
    /\ UNCHANGED <<latest, asset, fs, fs0, gets, recv, downloaded, run, prev>>

\* Lines 60-65.
PrepareDir ==
    /\ pc = "prepare_dir"
    /\ IF dir_exists(fs, install_dir)
       THEN pc' = "fetch_release" /\ UNCHANGED <<fs, out, stage, exit>>
       ELSE \E ok \in BOOLEAN :
            IF ok
            THEN /\ fs' = create_dir_all(fs, install_dir)
                 /\ out' = Say(out, quiet, "created_dir")
                 /\ pc' = "fetch_release"
                 /\ UNCHANGED <<stage, exit>>
            ELSE /\ pc' = "done" /\ stage' = "mkdir" /\ exit' = "err"
                 /\ UNCHANGED <<fs, out>>
    /\ UNCHANGED <<args, home, install_dir, create_symlink, force_update, quiet,
                   latest, asset, fs0, gets, recv, downloaded, run, prev>>

\* Lines 68-95: the release request, its JSON, the asset.
FetchRelease ==
    /\ pc = "fetch_release"
    /\ gets' = Append(gets, ApiUrl)
    /\ \E r \in {"send_err", "json_err", "ok"} :
        IF r # "ok"
        THEN pc' = "done" /\ stage' = "fetch" /\ exit' = "err" /\ UNCHANGED asset
        ELSE LET a == find_asset(latest.assets, 1) IN
             IF a = NoAsset
             THEN pc' = "done" /\ stage' = "no_asset" /\ exit' = "err" /\ UNCHANGED asset
             ELSE asset' = a /\ pc' = "check_installed" /\ UNCHANGED <<stage, exit>>
    /\ UNCHANGED <<args, home, install_dir, create_symlink, force_update, quiet,
                   latest, fs, fs0, recv, downloaded, out, run, prev>>

\* Lines 98-120.
CheckInstalled ==
    /\ pc = "check_installed"
    /\ IF path_exists(fs, install_dir, asset.name) /\ ~force_update
       THEN LET e1 == make_executable(fs[install_dir], asset.name)
                r == maybe_symlink(create_symlink, e1, asset.name)
            IN  /\ out' = Say(Say(out, quiet, "already_installed"), quiet, "use_force")
                /\ fs' = [fs EXCEPT ![install_dir] = r.ents]
                /\ pc' = "done"
                /\ stage' = (IF r.ok THEN "already" ELSE "symlink")
                /\ exit' = (IF r.ok THEN "ok" ELSE "err")
       ELSE /\ out' = Say(Say(out, quiet, "found"), quiet, "downloading")
            /\ pc' = "request_asset"
            /\ UNCHANGED <<fs, stage, exit>>
    /\ UNCHANGED <<args, home, install_dir, create_symlink, force_update, quiet,
                   latest, asset, fs0, gets, recv, downloaded, run, prev>>

\* RequestAsset with the destination opened before the response is checked.
RequestAsset_create_first ==
    /\ pc = "request_asset"
    /\ gets' = Append(gets, asset.browser_download_url)
    /\ \E r \in {"send_err", "status_err", "ok"} :
        /\ fs' = [fs EXCEPT ![install_dir] = File_create(@, asset.name, 18).ents]
        /\ IF r = "ok"
           THEN pc' = "create_file" /\ UNCHANGED <<stage, exit>>
           ELSE pc' = "done" /\ stage' = "request" /\ exit' = "err"
    /\ UNCHANGED <<args, home, install_dir, create_symlink, force_update, quiet,
                   latest, asset, fs0, recv, downloaded, out, run, prev>>

\* Lines 123-127.
RequestAsset ==
    /\ pc = "request_asset"
    /\ gets' = Append(gets, asset.browser_download_url)
    /\ \E r \in {"send_err", "status_err", "ok"} :
        IF r = "ok"
        THEN pc' = "create_file" /\ UNCHANGED <<stage, exit>>
        ELSE pc' = "done" /\ stage' = "request" /\ exit' = "err"
    /\ UNCHANGED <<args, home, install_dir, create_symlink, force_update, quiet,
                   latest, asset, fs, fs0, recv, downloaded, out, run, prev>>

\* Lines 145-147.
CreateFile ==
    /\ pc = "create_file"
    /\ \E u \in Umasks :
        LET r == File_create(fs[install_dir], asset.name, u) IN
        IF r.ok
        THEN /\ fs' = [fs EXCEPT ![install_dir] = r.ents]
             /\ downloaded' = 0
             /\ pc' = "stream"
             /\ UNCHANGED <<stage, exit>>
        ELSE /\ pc' = "done" /\ stage' = "create" /\ exit' = "err"
             /\ UNCHANGED <<fs, downloaded>>
    /\ UNCHANGED <<args, home, install_dir, create_symlink, force_update, quiet,
                   latest, asset, fs0, gets, recv, out, run, prev>>

\* Lines 149-155, stream.next() gave Some(Ok(chunk)).
WriteChunk ==
    /\ pc = "stream"
    /\ Len(recv) < MaxChunks
    /\ LET chunk == ChunkAt(Len(recv) + 1) IN
        /\ fs' = [fs EXCEPT ![install_dir] = write_all(@, asset.name, chunk)]
        /\ recv' = Append(recv, chunk)
        /\ downloaded' = downloaded + Len(chunk)
    /\ UNCHANGED <<args, home, install_dir, create_symlink, force_update, quiet,
                   latest, asset, fs0, gets, out, pc, stage, exit, run, prev>>

\* Lines 149-151, stream.next() gave Some(Err(_)).
StreamError ==
    /\ pc = "stream"
    /\ pc' = "done" /\ stage' = "stream" /\ exit' = "err"
    /\ UNCHANGED <<args, home, install_dir, create_symlink, force_update, quiet,
                   latest, asset, fs, fs0, gets, recv, downloaded, out, run, prev>>

\* Lines 149 and 157-178, stream.next() gave None.
FinishInstall ==
    /\ pc = "stream"
    /\ LET e1 == make_executable(fs[install_dir], asset.name)
           o1 == Say(out, quiet, "downloaded")
           r == maybe_symlink(create_symlink, e1, asset.name)
       IN  /\ fs' = [fs EXCEPT ![install_dir] = r.ents]
           /\ out' = (IF r.ok THEN Say(Say(o1, quiet, "installed"), quiet, "you_can_run")
                      ELSE o1)
           /\ pc' = "done"
           /\ stage' = (IF r.ok THEN "installed" ELSE "symlink")
           /\ exit' = (IF r.ok THEN "ok" ELSE "err")
    /\ UNCHANGED <<args, home, install_dir, create_symlink, force_update, quiet,
                   latest, asset, fs0, gets, recv, downloaded, run, prev>>

\* The same command line is run again in the same environment: ParseLoop is a
\* function of args, so a run that got past parsing starts with the locals it parsed.
Rerun ==
    /\ pc = "done"
    /\ run < MaxRuns
    /\ run' = run + 1
    /\ prev' = stage
    /\ IF stage \in {"home", "help"}
       THEN pc' = "start" /\ home' = "unread"
       ELSE pc' = "prepare_dir" /\ UNCHANGED home
    /\ stage' = "none"
    /\ exit' = "none"
    /\ asset' = NoAsset
    /\ fs0' = fs
    /\ gets' = <<>>
    /\ recv' = <<>>
    /\ downloaded' = 0
    /\ out' = <<>>
    /\ UNCHANGED <<args, install_dir, create_symlink, force_update, quiet, latest, fs>>

Next ==
    \/ ParseArgs
    \/ PrepareDir
    \/ FetchRelease
    \/ CheckInstalled
    \/ RequestAsset
    \/ CreateFile
    \/ WriteChunk
    \/ StreamError
    \/ FinishInstall
    \/ Rerun

Spec == Init /\ [][Next]_vars

---------------------------------------------------------------------------
(* What the claims speak of.                                               *)
Range(q) == {q[k] : k \in 1..Len(q)}

RECURSIVE Flatten(_)
Flatten(chunks) ==
    IF chunks = <<>> THEN <<>> ELSE Head(chunks) \o Flatten(Tail(chunks))

RECURSIVE Pow2(_)
Pow2(k) == IF k = 0 THEN 1 ELSE 2 * Pow2(k - 1)
Bit(m, k) == (m \div Pow2(k)) % 2
PermBits == 0..11
Has755(m) == \A k \in PermBits : Bit(ExecBits, k) = 1 => Bit(m, k) = 1

HasHelp(a) == \E k \in 2..Len(a) : a[k] \in {"--help", "-h"}

\* The entry at installDir/name, in the filesystem f.
At(f, n) == Ent(Ents(f, install_dir), n)
InstalledBefore == At(fs0, asset.name).kind # "none"
IsJoplinLink(e) == e.kind = "symlink" /\ e.target = asset.name

\* No asset of the release has ".AppImage" as its last nine characters.
NoAppImage(r) ==
    \A k \in 1..Len(r.assets) :
        LET n == r.assets[k].name IN
        ~(/\ Len(n) >= Len(AppImageSuffix)
          /\ \A j \in 1..Len(AppImageSuffix) :
                n[Len(n) - Len(AppImageSuffix) + j] = AppImageSuffix[j])
NoAssetRequested ==
    \A k \in 1..Len(latest.assets) : latest.assets[k].browser_download_url \notin Range(gets)

---------------------------------------------------------------------------
\* C1: a run that ends with status 0 other than by help leaves installDir/<asset>
\* present with every bit of 0o755 set and, when symlinks are enabled, joplin a
\* symlink to the asset's bare filename; after a download the file holds exactly
\* the chunks of the response, in order.
C1_ExitZeroMeansInstalled ==
    (pc = "done" /\ exit = "ok" /\ stage # "help") =>
        /\ install_dir \in DOMAIN fs
        /\ At(fs, asset.name).kind = "file"
        /\ Has755(At(fs, asset.name).perm)
        /\ create_symlink => IsJoplinLink(At(fs, Joplin))
        /\ stage = "installed" =>
            /\ At(fs, asset.name).data = Flatten(recv)
            /\ \A k \in 1..Len(recv) : recv[k] = ChunkAt(k)

C1_Witness ==
    /\ pc = "done" /\ exit = "ok" /\ stage = "installed"
    /\ create_symlink
    /\ Len(recv) = 2
    /\ At(fs0, Joplin).kind = "file"
    /\ InstalledBefore

\* C2 as stated: with -h or --help anywhere on the command line, whatever the
\* environment, the run prints the usage text and ends with status 0 having
\* touched neither the filesystem nor the network.
C2_HelpInEveryEnvironment ==
    [][(pc = "start" /\ HasHelp(args)) =>
          /\ pc' = "done" /\ exit' = "ok"
          /\ out' = <<"help">>
          /\ fs' = fs
          /\ gets' = <<>>]_vars

\* C2, amended: the same when HOME is set; with HOME unset the run fails before
\* it looks at the arguments.
C2_HelpWhenHomeSet ==
    [][(pc = "start" /\ HasHelp(args)) =>
          IF home' = "set"
          THEN /\ pc' = "done" /\ exit' = "ok"
               /\ out' = <<"help">>
               /\ fs' = fs
               /\ gets' = <<>>
          ELSE /\ pc' = "done" /\ exit' = "err"
               /\ out' = <<>>
               /\ fs' = fs
               /\ gets' = <<>>]_vars

C2_Witness ==
    /\ pc = "done" /\ stage = "help" /\ exit = "ok"
    /\ Len(args) = 3
    /\ args[2] \in {"--install-dir", "-d"}
    /\ args[3] \in {"--help", "-h"}
    /\ out = <<"help">>

C4_SymlinkStepSucceeds ==
    (pc = "done" /\ create_symlink /\ stage \in {"already", "installed", "symlink"}) =>
        /\ exit = "ok"
        /\ IsJoplinLink(At(fs, Joplin))

\* C5: the token after -d or --install-dir is consumed as the directory and is
\* not read as a flag; a trailing -d or --install-dir changes nothing.
RECURSIVE ConsumingParse(_, _, _)
ConsumingParse(a, k, c) ==
    IF k > Len(a) THEN c
    ELSE IF a[k] \in {"--install-dir", "-d"}
    THEN (IF k < Len(a) THEN ConsumingParse(a, k + 2, [c EXCEPT !.install_dir = a[k + 1]])
          ELSE c)
    ELSE IF a[k] = "--no-symlink"
    THEN ConsumingParse(a, k + 1, [c EXCEPT !.create_symlink = FALSE])
    ELSE IF a[k] \in {"--force", "-f"}
    THEN ConsumingParse(a, k + 1, [c EXCEPT !.force_update = TRUE])
    ELSE IF a[k] \in {"--quiet", "-q"}
    THEN ConsumingParse(a, k + 1, [c EXCEPT !.quiet = TRUE])
    ELSE IF a[k] \in {"--help", "-h"}
    THEN [c EXCEPT !.help = TRUE]
    ELSE ConsumingParse(a, k + 1, c)

C5_ValueTokenConsumed ==
    [][(pc = "start" /\ home' = "set") =>
          LET c == ConsumingParse(args, 2, DefaultCfg) IN
          IF c.help THEN stage' = "help"
          ELSE /\ pc' = "prepare_dir"
               /\ install_dir' = c.install_dir
               /\ create_symlink' = c.create_symlink
               /\ force_update' = c.force_update
               /\ quiet' = c.quiet]_vars

\* C6 as stated: when no asset of the latest release ends with ".AppImage", the
\* run ends with an error, requests no asset, and creates no filesystem entry.
C6_NoAssetCreatesNothing ==
    (pc = "done" /\ NoAppImage(latest) /\ ApiUrl \in Range(gets) /\ stage # "fetch") =>
        /\ exit = "err"
        /\ NoAssetRequested
        /\ fs = fs0

\* C6, amended: the run ends with an error, requests no asset, and creates no
\* entry other than the install directory itself, which is created, when it
\* was absent, before the release is requested.
C6_NoAssetCreatesOnlyDir ==
    (pc = "done" /\ NoAppImage(latest) /\ ApiUrl \in Range(gets) /\ stage # "fetch") =>
        /\ exit = "err"
        /\ NoAssetRequested
        /\ \A d \in Dirs : Ents(fs, d) = Ents(fs0, d)
        /\ DOMAIN fs \subseteq DOMAIN fs0 \cup {install_dir}

C6_Witness ==
    /\ pc = "done" /\ stage = "no_asset" /\ exit = "err"
    /\ Len(latest.assets) = 3
    /\ install_dir \in DOMAIN fs /\ install_dir \notin DOMAIN fs0

\* C7: with force on and a file already at installDir/<asset>, the asset URL is
\* requested, and a run that ends with status 0 leaves in the file exactly the
\* downloaded bytes, whatever the length of what was there.
C7_ForceRewrites ==
    (asset # NoAsset /\ force_update /\ InstalledBefore) =>
        /\ pc \in {"create_file", "stream", "done"} =>
              asset.browser_download_url \in Range(gets)
        /\ (pc = "done" /\ exit = "ok") =>
              /\ stage = "installed"
              /\ At(fs, asset.name).data = Flatten(recv)

C7_Witness ==
    /\ pc = "done" /\ exit = "ok" /\ force_update /\ InstalledBefore
    /\ Len(At(fs0, asset.name).data) = 4
    /\ Len(recv) = 1
    /\ At(fs, asset.name).data = <<1>>

\* C8: with --no-symlink, on every path of the run, the entry installDir/joplin
\* is as it was when the run started.
C8_NoSymlinkLeavesJoplin ==
    ~create_symlink => \A d \in Dirs : Ent(Ents(fs, d), Joplin) = Ent(Ents(fs0, d), Joplin)

C8_Witness ==
    /\ pc = "done" /\ stage = "installed" /\ ~create_symlink
    /\ At(fs, Joplin) = SymlinkEntry(Old)
    /\ At(fs, Old).kind = "none"

\* C9: after a run that failed while the chunks were being written, a second run
\* of the same command without force, once it has resolved the same release,
\* takes the already-installed branch: it requests no asset, leaves the
\* truncated content in place and ends with status 0.
C9_SecondRunAcceptsTruncated ==
    (run > 1 /\ prev = "stream" /\ ~force_update /\ asset # NoAsset /\ pc = "done") =>
        /\ exit = "ok"
        /\ asset.browser_download_url \notin Range(gets)
        /\ At(fs, asset.name).kind = "file"
        /\ At(fs, asset.name).data = At(fs0, asset.name).data

\* C10: when the GET for the asset fails to send or comes back with an error
\* status, the run ends with an error and the install directory holds what it
\* held when the run started: the file there keeps content and mode, no file is
\* created, joplin is as it was.
C10_FailedRequestTouchesNothing ==
    (pc = "done" /\ stage = "request") =>
        /\ exit = "err"
        /\ Range(gets) = {ApiUrl, asset.browser_download_url}
        /\ \A d \in Dirs : Ents(fs, d) = Ents(fs0, d)

C10_Witness ==
    /\ pc = "done" /\ stage = "request"
    /\ force_update /\ InstalledBefore
    /\ At(fs, asset.name) = FileEntry(436, <<9, 9, 9, 9>>)

====
